---- MODULE Spec2Model ----
(***************************************************************************)
(* Model of services/engine/src/domain.rs: the validated value types of    *)
(* the poker engine (Rank, Card, Deck, Action, SeatNo, SeatState,          *)
(* TableConfig, HandState) and their constructors.                         *)
(*                                                                         *)
(* A caller sits at pc = "idle", calls one constructor with arguments      *)
(* drawn from bounded sets (pc = "ret" holds the call, its arguments and   *)
(* its result), may write to the public fields of the value it got back,   *)
(* and drops it.  Deck::standard_52 is modelled loop iteration by loop     *)
(* iteration (pc = "deck").                                                *)
(*                                                                         *)
(* Spec     : the value types (Rank, SeatNo, SeatState, Action,            *)
(*            TableConfig, Deck).                                          *)
(* SpecHand : Action and the aggregate HandState, with the writes their    *)
(*            public fields allow, over a sequence of hands.               *)
(***************************************************************************)
EXTENDS Integers, Sequences, FiniteSets, TLC

VARIABLES pc, op, args, ret, origin, rng_used, hand_ids, cards, suit_ix, rank

vars == <<pc, op, args, ret, origin, rng_used, hand_ids, cards, suit_ix, rank>>

(***************************************************************************)
(* Bounds of the model                                                     *)
(***************************************************************************)
\* longest seat list handed to HandState::new
MaxLen == 3
\* largest u8 probed for the fields of a TableConfig handed to validate()
MaxProbe == 8
\* number of distinct UUIDs the generator can hand out
MaxUuid == 2

(***************************************************************************)
(* Program constants                                                       *)
(***************************************************************************)
DEFAULT_MAX_SEATS == 6
DEFAULT_MIN_PLAYERS_TO_START == 2
DEFAULT_STARTING_STACK == 10000
DEFAULT_SMALL_BLIND == 50
DEFAULT_BIG_BLIND == 100
DEFAULT_ACTION_TIMEOUT_MS == 2000
\* largest value of the u8 parameters of Rank::new and SeatNo::new
U8Max == 255

U8 == 0..U8Max

(***************************************************************************)
(* Result<T, DomainError> and Option<u32>                                  *)
(***************************************************************************)
Ok(v) == [tag |-> "Ok", value |-> v]
Err(e) == [tag |-> "Err", error |-> e]
IsOk(r) == r.tag = "Ok"
IsErr(r) == r.tag = "Err"

None == << >>
Some(x) == <<x>>
IsSome(o) == Len(o) > 0
IsNone(o) == Len(o) = 0

(***************************************************************************)
(* DomainError                                                             *)
(***************************************************************************)
InvalidRank(v) == [kind |-> "InvalidRank", value |-> v]
InvalidSeatNo(m, a) == [kind |-> "InvalidSeatNo", max |-> m, actual |-> a]
MissingActionAmount(k) == [kind |-> "MissingActionAmount", action |-> k]
UnexpectedActionAmount(k) == [kind |-> "UnexpectedActionAmount", action |-> k]
InvalidMaxSeats(v) == [kind |-> "InvalidMaxSeats", value |-> v]
InvalidMinPlayersToStart == [kind |-> "InvalidMinPlayersToStart"]
InvalidBlindStructure == [kind |-> "InvalidBlindStructure"]
NotEnoughActiveSeats(m, a) == [kind |-> "NotEnoughActiveSeats", minimum |-> m, actual |-> a]
TooManySeats(m, a) == [kind |-> "TooManySeats", max |-> m, actual |-> a]
DuplicateSeat == [kind |-> "DuplicateSeat"]

(***************************************************************************)
(* Suit, Rank, Card                                                        *)
(***************************************************************************)
\* the suits in the order Deck::standard_52 walks them
SuitOrder == <<"Clubs", "Diamonds", "Hearts", "Spades">>
Suit == {"Clubs", "Diamonds", "Hearts", "Spades"}

\* RankNew with the ace left out of the range
RankNew_AceExcluded(value) ==
    IF 2 <= value /\ value < 14
    THEN Ok([v |-> value])
    ELSE Err(InvalidRank(value))

\* Rank is a newtype over u8 with a private field
RankNew(value) ==
    IF 2 <= value /\ value <= 14
    THEN Ok([v |-> value])
    ELSE Err(InvalidRank(value))

RankValue(r) == r.v

CardNew(r, s) == [rank |-> r, suit |-> s]

(***************************************************************************)
(* ActionKind, Action                                                      *)
(***************************************************************************)
ActionKind == {"Fold", "Check", "Call", "Bet", "Raise"}

\* ActionNew that asks an amount of a call as well
ActionNew_CallNeedsAmount(kind, amount) ==
    LET needs_amount == kind \in {"Call", "Bet", "Raise"}
    IN  IF needs_amount /\ IsNone(amount)
        THEN Err(MissingActionAmount(kind))
        ELSE IF ~needs_amount /\ IsSome(amount)
        THEN Err(UnexpectedActionAmount(kind))
        ELSE Ok([kind |-> kind, amount |-> amount])

\* ActionNew without its second check
ActionNew_AmountNeverRefused(kind, amount) ==
    LET needs_amount == kind \in {"Bet", "Raise"}
    IN  IF needs_amount /\ IsNone(amount)
        THEN Err(MissingActionAmount(kind))
        ELSE Ok([kind |-> kind, amount |-> amount])

ActionNew(kind, amount) ==
    LET needs_amount == kind \in {"Bet", "Raise"}
    IN  IF needs_amount /\ IsNone(amount)
        THEN Err(MissingActionAmount(kind))
        ELSE IF ~needs_amount /\ IsSome(amount)
        THEN Err(UnexpectedActionAmount(kind))
        ELSE Ok([kind |-> kind, amount |-> amount])

(***************************************************************************)
(* SeatNo, SeatStatus, SeatState                                           *)
(***************************************************************************)
\* SeatNoNew that numbers the seats from 0 to max_seats - 1
SeatNoNew_ZeroBased(value, max_seats) ==
    IF value >= max_seats
    THEN Err(InvalidSeatNo(max_seats, value))
    ELSE Ok([v |-> value])

\* SeatNo is a newtype over u8 with a private field
SeatNoNew(value, max_seats) ==
    IF value = 0 \/ value > max_seats
    THEN Err(InvalidSeatNo(max_seats, value))
    ELSE Ok([v |-> value])

SeatNoValue(s) == s.v

SeatStatus == {"Active", "SittingOut", "Busted"}

SeatStateNew(seat_no, stack) ==
    [seat_no |-> seat_no, stack |-> stack, committed_in_round |-> 0, status |-> "Active"]

IsActive(seat) == seat.status = "Active"

(***************************************************************************)
(* TableConfig                                                             *)
(***************************************************************************)
DefaultV0 ==
    [max_seats |-> DEFAULT_MAX_SEATS,
     min_players_to_start |-> DEFAULT_MIN_PLAYERS_TO_START,
     starting_stack |-> DEFAULT_STARTING_STACK,
     small_blind |-> DEFAULT_SMALL_BLIND,
     big_blind |-> DEFAULT_BIG_BLIND,
     action_timeout_ms |-> DEFAULT_ACTION_TIMEOUT_MS]

\* Ok(()) carries the unit value
Unit == << >>

\* Validate that takes the table's own max_seats as the ceiling
Validate_OwnCeiling(config) ==
    IF ~(2 <= config.max_seats /\ config.max_seats <= config.max_seats)
    THEN Err(InvalidMaxSeats(config.max_seats))
    ELSE IF config.min_players_to_start < 2
            \/ config.min_players_to_start > config.max_seats
    THEN Err(InvalidMinPlayersToStart)
    ELSE IF config.big_blind < config.small_blind
    THEN Err(InvalidBlindStructure)
    ELSE Ok(Unit)

Validate(config) ==
    IF ~(2 <= config.max_seats /\ config.max_seats <= DEFAULT_MAX_SEATS)
    THEN Err(InvalidMaxSeats(config.max_seats))
    ELSE IF config.min_players_to_start < 2
            \/ config.min_players_to_start > config.max_seats
    THEN Err(InvalidMinPlayersToStart)
    ELSE IF config.big_blind < config.small_blind
    THEN Err(InvalidBlindStructure)
    ELSE Ok(Unit)

(***************************************************************************)
(* HandPhase, HandState                                                    *)
(***************************************************************************)
Street == {"Preflop", "Flop", "Turn", "River"}
Dealing == [tag |-> "Dealing"]
Betting(street) == [tag |-> "Betting", street |-> street]

\* the hand that takes the table's id for its own
BuiltHand_TableIdAsHandId(table_id, hand_no, button_seat, acting_seat, seats, hand_id) ==
    [hand_id |-> table_id,
     table_id |-> table_id,
     hand_no |-> hand_no,
     button_seat |-> button_seat,
     acting_seat |-> acting_seat,
     phase |-> Dealing,
     pot |-> 0,
     board |-> << >>,
     seats |-> seats]

\* the Self { .. } that HandState::new returns; hand_id is the value of
\* Uuid::new_v4()
BuiltHand(table_id, hand_no, button_seat, acting_seat, seats, hand_id) ==
    [hand_id |-> hand_id,
     table_id |-> table_id,
     hand_no |-> hand_no,
     button_seat |-> button_seat,
     acting_seat |-> acting_seat,
     phase |-> Dealing,
     pot |-> 0,
     board |-> << >>,
     seats |-> seats]

\* HandStateNew that counts the seats before it counts the active ones
HandStateNew_SeatCountFirst(table_id, hand_no, button_seat, acting_seat, seats, config, new_v4) ==
    LET checked == Validate(config)
        active_count == Cardinality({i \in DOMAIN seats : IsActive(seats[i])})
        unique_count == Cardinality({seats[i].seat_no : i \in DOMAIN seats})
    IN  IF IsErr(checked)
        THEN Err(checked.error)
        ELSE IF Len(seats) > config.max_seats
        THEN Err(TooManySeats(config.max_seats, Len(seats)))
        ELSE IF active_count < config.min_players_to_start
        THEN Err(NotEnoughActiveSeats(config.min_players_to_start, active_count))
        ELSE IF unique_count # Len(seats)
        THEN Err(DuplicateSeat)
        ELSE Ok(BuiltHand(table_id, hand_no, button_seat, acting_seat, seats, new_v4))

\* HandStateNew without the duplicate check
HandStateNew_DuplicatesPass(table_id, hand_no, button_seat, acting_seat, seats, config, new_v4) ==
    LET checked == Validate(config)
        active_count == Cardinality({i \in DOMAIN seats : IsActive(seats[i])})
    IN  IF IsErr(checked)
        THEN Err(checked.error)
        ELSE IF active_count < config.min_players_to_start
        THEN Err(NotEnoughActiveSeats(config.min_players_to_start, active_count))
        ELSE IF Len(seats) > config.max_seats
        THEN Err(TooManySeats(config.max_seats, Len(seats)))
        ELSE Ok(BuiltHand(table_id, hand_no, button_seat, acting_seat, seats, new_v4))

\* HandStateNew that refuses an acting seat that is not an active seat of
\* the list
HandStateNew_ActorMustSit(table_id, hand_no, button_seat, acting_seat, seats, config, new_v4) ==
    LET checked == Validate(config)
        active_count == Cardinality({i \in DOMAIN seats : IsActive(seats[i])})
        unique_count == Cardinality({seats[i].seat_no : i \in DOMAIN seats})
    IN  IF IsErr(checked)
        THEN Err(checked.error)
        ELSE IF active_count < config.min_players_to_start
        THEN Err(NotEnoughActiveSeats(config.min_players_to_start, active_count))
        ELSE IF Len(seats) > config.max_seats
        THEN Err(TooManySeats(config.max_seats, Len(seats)))
        ELSE IF unique_count # Len(seats)
        THEN Err(DuplicateSeat)
        ELSE IF ~\E i \in DOMAIN seats : seats[i].seat_no = acting_seat /\ IsActive(seats[i])
        THEN Err(InvalidSeatNo(config.max_seats, SeatNoValue(acting_seat)))
        ELSE Ok(BuiltHand(table_id, hand_no, button_seat, acting_seat, seats, new_v4))

\* new_v4 is the value Uuid::new_v4() returns in this call
HandStateNew(table_id, hand_no, button_seat, acting_seat, seats, config, new_v4) ==
    LET checked == Validate(config)
        active_count == Cardinality({i \in DOMAIN seats : IsActive(seats[i])})
        unique_count == Cardinality({seats[i].seat_no : i \in DOMAIN seats})
    IN  IF IsErr(checked)
        THEN Err(checked.error)
        ELSE IF active_count < config.min_players_to_start
        THEN Err(NotEnoughActiveSeats(config.min_players_to_start, active_count))
        ELSE IF Len(seats) > config.max_seats
        THEN Err(TooManySeats(config.max_seats, Len(seats)))
        ELSE IF unique_count # Len(seats)
        THEN Err(DuplicateSeat)
        ELSE Ok(BuiltHand(table_id, hand_no, button_seat, acting_seat, seats, new_v4))

(***************************************************************************)
(* The arguments the caller draws from                                     *)
(***************************************************************************)
\* every SeatNo a caller can hold comes out of SeatNo::new, for some max_seats
\* (here: the first two seats and the last seat of a default table)
SeatValues == {1, 2, DEFAULT_MAX_SEATS}
SeatNos ==
    {r.value : r \in {x \in {SeatNoNew(v, m) : v \in SeatValues, m \in {0, DEFAULT_MAX_SEATS}} : IsOk(x)}}

\* a seat as SeatState::new builds it, or after the engine has set it aside
SeatPool ==
    {SeatStateNew(n, DEFAULT_STARTING_STACK) : n \in SeatNos}
    \cup {[SeatStateNew(n, DEFAULT_STARTING_STACK) EXCEPT !.status = "SittingOut"] : n \in SeatNos}
    \cup {[SeatStateNew(n, 0) EXCEPT !.status = "Busted"] : n \in SeatNos}

SeatLists == UNION {[1..n -> SeatPool] : n \in 0..MaxLen}

\* table configurations handed to HandState::new: the default one, smaller
\* tables, and one configuration for each error of validate()
HandConfigs ==
    {DefaultV0}
    \cup {[DefaultV0 EXCEPT !.max_seats = m, !.min_players_to_start = q] :
            m \in {2, 3}, q \in {2, 3}}
    \cup {[DefaultV0 EXCEPT !.max_seats = 1],
          [DefaultV0 EXCEPT !.min_players_to_start = 1],
          [DefaultV0 EXCEPT !.big_blind = 25]}

TableIds == {101, 102}
HandNos == {1, 2}

\* the remaining arguments of HandState::new: one seat as button and actor,
\* or two different seats
Callers ==
    {[table_id |-> 101, hand_no |-> 1, button_seat |-> b, acting_seat |-> b] :
        b \in {n \in SeatNos : SeatNoValue(n) = 1}}
    \cup {[table_id |-> 102, hand_no |-> 2, button_seat |-> b, acting_seat |-> a] :
        b \in {n \in SeatNos : SeatNoValue(n) = DEFAULT_MAX_SEATS},
        a \in {n \in SeatNos : SeatNoValue(n) = 2}}

\* table configurations handed to validate()
Probe == 0..MaxProbe
Blinds == {0, DEFAULT_SMALL_BLIND, DEFAULT_BIG_BLIND}
ProbeConfigs ==
    {[DefaultV0 EXCEPT !.max_seats = m, !.min_players_to_start = p,
                       !.small_blind = sb, !.big_blind = bb] :
        m \in Probe, p \in Probe, sb \in Blinds, bb \in Blinds}

Amounts == {0, 1, DEFAULT_BIG_BLIND}
OptAmounts == {None} \cup {Some(a) : a \in Amounts}

UuidSpace == 1..MaxUuid

(***************************************************************************)
(* State machine                                                           *)
(***************************************************************************)
NoArgs == [none |-> TRUE]
NoRet == [tag |-> "None"]

Init ==
    /\ pc = "idle"
    /\ op = "none"
    /\ args = NoArgs
    /\ ret = NoRet
    /\ origin = "none"
    /\ rng_used = {}
    /\ hand_ids = << >>
    /\ cards = << >>
    /\ suit_ix = 1
    /\ rank = 2

Returned(o, a, r) ==
    /\ pc' = "ret"
    /\ op' = o
    /\ args' = a
    /\ ret' = r
    /\ origin' = "factory"

CallRankNew ==
    /\ pc = "idle"
    /\ \E value \in U8 : Returned("Rank::new", [value |-> value], RankNew(value))
    /\ UNCHANGED <<rng_used, hand_ids, cards, suit_ix, rank>>

CallSeatNoNew ==
    /\ pc = "idle"
    /\ \E value \in U8, max_seats \in U8 :
          Returned("SeatNo::new", [value |-> value, max_seats |-> max_seats],
                   SeatNoNew(value, max_seats))
    /\ UNCHANGED <<rng_used, hand_ids, cards, suit_ix, rank>>

CallSeatStateNew ==
    /\ pc = "idle"
    /\ \E seat_no \in SeatNos, stack \in {0, DEFAULT_STARTING_STACK} :
          Returned("SeatState::new", [seat_no |-> seat_no, stack |-> stack],
                   Ok(SeatStateNew(seat_no, stack)))
    /\ UNCHANGED <<rng_used, hand_ids, cards, suit_ix, rank>>

CallActionNew ==
    /\ pc = "idle"
    /\ \E kind \in ActionKind, amount \in OptAmounts :
          Returned("Action::new", [kind |-> kind, amount |-> amount],
                   ActionNew(kind, amount))
    /\ UNCHANGED <<rng_used, hand_ids, cards, suit_ix, rank>>

CallDefaultV0 ==
    /\ pc = "idle"
    /\ Returned("TableConfig::default_v0", NoArgs, Ok(DefaultV0))
    /\ UNCHANGED <<rng_used, hand_ids, cards, suit_ix, rank>>

CallValidate ==
    /\ pc = "idle"
    /\ \E config \in ProbeConfigs \cup {DefaultV0} :
          Returned("TableConfig::validate", [config |-> config], Validate(config))
    /\ UNCHANGED <<rng_used, hand_ids, cards, suit_ix, rank>>

CallHandStateNew ==
    /\ pc = "idle"
    /\ \E c \in Callers, seats \in SeatLists, config \in HandConfigs,
          new_v4 \in UuidSpace \ rng_used :
          LET r == HandStateNew(c.table_id, c.hand_no, c.button_seat, c.acting_seat,
                                seats, config, new_v4)
          IN  /\ Returned("HandState::new",
                          [table_id |-> c.table_id, hand_no |-> c.hand_no,
                           button_seat |-> c.button_seat, acting_seat |-> c.acting_seat,
                           seats |-> seats, config |-> config],
                          r)
              \* Uuid::new_v4() is only reached on the success path
              /\ rng_used' = IF IsOk(r) THEN rng_used \cup {new_v4} ELSE rng_used
              /\ hand_ids' = IF IsOk(r) THEN Append(hand_ids, r.value.hand_id) ELSE hand_ids
    /\ UNCHANGED <<cards, suit_ix, rank>>

\* Action { kind, amount }: the fields of Action are public
ActionLiteral ==
    /\ pc = "idle"
    /\ \E kind \in ActionKind, amount \in OptAmounts :
          /\ pc' = "ret"
          /\ op' = "Action"
          /\ args' = [kind |-> kind, amount |-> amount]
          /\ ret' = Ok([kind |-> kind, amount |-> amount])
          /\ origin' = "literal"
    /\ UNCHANGED <<rng_used, hand_ids, cards, suit_ix, rank>>

\* action.kind = k or action.amount = a, on an Action the caller owns
WriteAction ==
    /\ pc = "ret"
    /\ op = "Action::new"
    /\ IsOk(ret)
    /\ origin = "factory"
    /\ \/ \E kind \in ActionKind : ret' = Ok([ret.value EXCEPT !.kind = kind])
       \/ \E amount \in OptAmounts : ret' = Ok([ret.value EXCEPT !.amount = amount])
    /\ origin' = "written"
    /\ UNCHANGED <<pc, op, args, rng_used, hand_ids, cards, suit_ix, rank>>

\* hand.seats[i].status = s or hand.seats.push(seat), on a HandState the
\* caller owns: seats and the fields of SeatState are public
WriteHand ==
    /\ pc = "ret"
    /\ op = "HandState::new"
    /\ IsOk(ret)
    /\ origin = "factory"
    /\ \/ \E i \in DOMAIN ret.value.seats, status \in SeatStatus :
             ret' = Ok([ret.value EXCEPT !.seats[i].status = status])
       \/ \E seat \in SeatPool :
             ret' = Ok([ret.value EXCEPT !.seats = Append(@, seat)])
    /\ origin' = "written"
    /\ UNCHANGED <<pc, op, args, rng_used, hand_ids, cards, suit_ix, rank>>

\* Deck::standard_52: Vec::with_capacity(52), then the two loops
DeckFirstRank == 2
DeckLastRank == 14

DeckStart ==
    /\ pc = "idle"
    /\ pc' = "deck"
    /\ op' = "Deck::standard_52"
    /\ cards' = << >>
    /\ suit_ix' = 1
    /\ rank' = DeckFirstRank
    /\ UNCHANGED <<args, ret, origin, rng_used, hand_ids>>

\* one pass through the body of the inner loop
DeckPush ==
    /\ pc = "deck"
    /\ suit_ix <= Len(SuitOrder)
    /\ LET r == RankNew(rank)
       IN  IF IsOk(r)
           THEN /\ cards' = Append(cards, CardNew(r.value, SuitOrder[suit_ix]))
                /\ IF rank >= DeckLastRank
                   THEN suit_ix' = suit_ix + 1 /\ rank' = DeckFirstRank
                   ELSE suit_ix' = suit_ix /\ rank' = rank + 1
                /\ pc' = "deck"
           ELSE \* .expect("standard deck ranks are always valid") panics
                /\ pc' = "panic"
                /\ UNCHANGED <<cards, suit_ix, rank>>
    /\ UNCHANGED <<op, args, ret, origin, rng_used, hand_ids>>

\* Self { cards }, then Deck::cards() hands the slice out
DeckReturn ==
    /\ pc = "deck"
    /\ suit_ix > Len(SuitOrder)
    /\ Returned("Deck::standard_52", NoArgs, Ok([cards |-> cards]))
    /\ cards' = << >>
    /\ suit_ix' = 1
    /\ rank' = DeckFirstRank
    /\ UNCHANGED <<rng_used, hand_ids>>

Drop ==
    /\ pc = "ret"
    /\ pc' = "idle"
    /\ op' = "none"
    /\ args' = NoArgs
    /\ ret' = NoRet
    /\ origin' = "none"
    /\ UNCHANGED <<rng_used, hand_ids, cards, suit_ix, rank>>

Next ==
    \/ CallRankNew
    \/ CallSeatNoNew
    \/ CallSeatStateNew
    \/ CallActionNew
    \/ CallDefaultV0
    \/ CallValidate
    \/ DeckStart
    \/ DeckPush
    \/ DeckReturn
    \/ Drop

Spec == Init /\ [][Next]_vars

NextHand ==
    \/ CallActionNew
    \/ ActionLiteral
    \/ WriteAction
    \/ CallHandStateNew
    \/ WriteHand
    \/ Drop

SpecHand == Init /\ [][NextHand]_vars

(***************************************************************************)
(* Properties of the value types, checked under Spec                       *)
(***************************************************************************)
AtReturn(o) == pc = "ret" /\ op = o /\ origin = "factory"

\* C8: Rank::new(v) succeeds iff 2 <= v <= 14 and otherwise fails with
\* InvalidRank(v); SeatNo::new(v, max) succeeds iff 1 <= v <= max and
\* otherwise fails with InvalidSeatNo{max, actual: v}; the value() of a
\* successful result is v.
RangeFactories ==
    /\ AtReturn("Rank::new") =>
          /\ IsOk(ret) <=> (args.value >= 2 /\ args.value <= 14)
          /\ IsOk(ret) => RankValue(ret.value) = args.value
          /\ IsErr(ret) => ret.error = [kind |-> "InvalidRank", value |-> args.value]
    /\ AtReturn("SeatNo::new") =>
          /\ IsOk(ret) <=> (1 <= args.value /\ args.value <= args.max_seats)
          /\ IsOk(ret) => SeatNoValue(ret.value) = args.value
          /\ IsErr(ret) => ret.error = [kind |-> "InvalidSeatNo",
                                        max |-> args.max_seats, actual |-> args.value]
          /\ args.max_seats = 0 => IsErr(ret)

\* the largest seat number of the largest table was accepted
RangeFactoriesWitness ==
    /\ AtReturn("SeatNo::new")
    /\ args.value = U8Max
    /\ args.max_seats = U8Max
    /\ IsOk(ret)

\* C6: Action::new succeeds iff (kind in {bet, raise} <=> amount present);
\* it fails with MissingActionAmount(kind) for bet/raise without amount,
\* with UnexpectedActionAmount(kind) for fold/check/call with an amount, and
\* a successful Action carries exactly the given kind and amount.
ActionPairing ==
    AtReturn("Action::new") =>
        LET sized == args.kind \in {"Bet", "Raise"}
            present == args.amount # None
        IN  /\ IsOk(ret) <=> (sized <=> present)
            /\ (sized /\ ~present) =>
                  ret = Err([kind |-> "MissingActionAmount", action |-> args.kind])
            /\ (~sized /\ present) =>
                  ret = Err([kind |-> "UnexpectedActionAmount", action |-> args.kind])
            /\ IsOk(ret) => ret.value.kind = args.kind /\ ret.value.amount = args.amount

\* a call with an amount was refused with UnexpectedActionAmount
ActionPairingWitness ==
    /\ AtReturn("Action::new")
    /\ args.kind = "Call"
    /\ args.amount = Some(DEFAULT_BIG_BLIND)
    /\ IsErr(ret)
    /\ ret.error.kind = "UnexpectedActionAmount"

\* C5: validate() is Ok iff 2 <= max_seats <= 6, 2 <= min_players_to_start
\* <= max_seats and big_blind >= small_blind; otherwise it reports the first
\* failing check in the order InvalidMaxSeats(max_seats),
\* InvalidMinPlayersToStart, InvalidBlindStructure; default_v0() validates.
ValidateOrder ==
    /\ AtReturn("TableConfig::validate") =>
          LET c == args.config
              seats_ok == c.max_seats \in 2..6
              players_ok == c.min_players_to_start \in 2..c.max_seats
              blinds_ok == c.big_blind >= c.small_blind
          IN  /\ IsOk(ret) <=> (seats_ok /\ players_ok /\ blinds_ok)
              /\ ~seats_ok =>
                    ret = Err([kind |-> "InvalidMaxSeats", value |-> c.max_seats])
              /\ (seats_ok /\ ~players_ok) =>
                    ret = Err([kind |-> "InvalidMinPlayersToStart"])
              /\ (seats_ok /\ players_ok /\ ~blinds_ok) =>
                    ret = Err([kind |-> "InvalidBlindStructure"])
              /\ c = DefaultV0 => IsOk(ret)
    /\ AtReturn("TableConfig::default_v0") =>
          /\ ret.value.max_seats = 6
          /\ ret.value.min_players_to_start = 2
          /\ ret.value.starting_stack = 10000
          /\ ret.value.small_blind = 50
          /\ ret.value.big_blind = 100
          /\ ret.value.action_timeout_ms = 2000
          /\ IsOk(Validate(ret.value))

\* too many seats, too few players and inverted blinds at once: the first
\* check wins
ValidateOrderWitness ==
    /\ AtReturn("TableConfig::validate")
    /\ args.config.max_seats = 7
    /\ args.config.min_players_to_start = 1
    /\ args.config.big_blind < args.config.small_blind
    /\ IsErr(ret)
    /\ ret.error.kind = "InvalidMaxSeats"

\* C7: Deck::standard_52() never panics and always returns the same 52
\* cards: no (rank, suit) pair twice, all 4 x 13 pairs of the four suits and
\* the ranks 2..14, suit-major (clubs, diamonds, hearts, spades; ranks
\* ascending within a suit).
DeckComplete ==
    /\ pc # "panic"
    /\ AtReturn("Deck::standard_52") =>
          LET d == ret.value.cards
          IN  /\ IsOk(ret)
              /\ Len(d) = 52
              /\ \A i, j \in 1..Len(d) : i # j => d[i] # d[j]
              /\ \A s \in Suit, n \in 2..14 :
                    \E i \in 1..Len(d) : d[i].suit = s /\ RankValue(d[i].rank) = n
              /\ \A i \in 1..Len(d) :
                    /\ d[i].suit = SuitOrder[((i - 1) \div 13) + 1]
                    /\ RankValue(d[i].rank) = ((i - 1) % 13) + 2

\* the deck was built and handed out, the ace of spades last
DeckCompleteWitness ==
    /\ AtReturn("Deck::standard_52")
    /\ Len(ret.value.cards) = 52
    /\ ret.value.cards[52] = [rank |-> [v |-> 14], suit |-> "Spades"]

(***************************************************************************)
(* Properties of Action and HandState, checked under SpecHand              *)
(***************************************************************************)
ActiveSeats(seats) == {i \in DOMAIN seats : seats[i].status = "Active"}
HasDuplicateSeat(seats) ==
    \E i, j \in DOMAIN seats : i < j /\ seats[i].seat_no = seats[j].seat_no
ConfigHolds(c) ==
    /\ 2 <= c.max_seats /\ c.max_seats <= 6
    /\ 2 <= c.min_players_to_start /\ c.min_players_to_start <= c.max_seats
    /\ c.big_blind >= c.small_blind

\* C1: HandState::new reports the first failing check in the order
\* config.validate(), active seats < min_players_to_start
\* (NotEnoughActiveSeats{minimum, actual}), seats.len() > max_seats
\* (TooManySeats{max, actual}), duplicate seat numbers (DuplicateSeat), and
\* is Ok exactly when none of the four fails.
HandCheckOrder ==
    AtReturn("HandState::new") =>
        LET c == args.config
            n == Len(args.seats)
            active == Cardinality(ActiveSeats(args.seats))
        IN  IF ~ConfigHolds(c)
            THEN /\ IsErr(ret)
                 /\ ret.error.kind \in {"InvalidMaxSeats", "InvalidMinPlayersToStart",
                                        "InvalidBlindStructure"}
                 /\ ret = Validate(c)
            ELSE IF active < c.min_players_to_start
            THEN ret = Err([kind |-> "NotEnoughActiveSeats",
                            minimum |-> c.min_players_to_start, actual |-> active])
            ELSE IF n > c.max_seats
            THEN ret = Err([kind |-> "TooManySeats", max |-> c.max_seats, actual |-> n])
            ELSE IF HasDuplicateSeat(args.seats)
            THEN ret = Err([kind |-> "DuplicateSeat"])
            ELSE IsOk(ret)

\* three seats at a table for two, one seat number twice and only one seat
\* active: of the three failing checks the active-seat count is reported
HandCheckOrderWitness ==
    /\ AtReturn("HandState::new")
    /\ args.config.max_seats = 2
    /\ Len(args.seats) = 3
    /\ HasDuplicateSeat(args.seats)
    /\ Cardinality(ActiveSeats(args.seats)) = 1
    /\ IsErr(ret)
    /\ ret.error.kind = "NotEnoughActiveSeats"

\* C3: a HandState that HandState::new returned has, for the config it was
\* built with, seats.len() <= max_seats, pairwise distinct seat numbers, at
\* least min_players_to_start active seats and a config that validates;
\* hence 2 <= active seats <= seats.len() <= 6.
BuiltHandValid ==
    (AtReturn("HandState::new") /\ IsOk(ret)) =>
        LET seats == ret.value.seats
            c == args.config
            active == Cardinality(ActiveSeats(seats))
        IN  /\ Len(seats) <= c.max_seats
            /\ ~HasDuplicateSeat(seats)
            /\ active >= c.min_players_to_start
            /\ ConfigHolds(c)
            /\ 2 <= active /\ active <= Len(seats) /\ Len(seats) <= 6

\* a full table of three with one seat sitting out was built
BuiltHandValidWitness ==
    /\ AtReturn("HandState::new")
    /\ IsOk(ret)
    /\ args.config.max_seats = 3
    /\ Len(ret.value.seats) = 3
    /\ Cardinality(ActiveSeats(ret.value.seats)) = 2

\* C4: in a HandState that HandState::new returned every seat number is
\* valid for the table: 1 <= seat_no.value() <= config.max_seats, whatever
\* max_seats the SeatNo was made with.
BuiltHandSeatNosInTable ==
    (AtReturn("HandState::new") /\ IsOk(ret)) =>
        \A i \in DOMAIN ret.value.seats :
            /\ 1 <= SeatNoValue(ret.value.seats[i].seat_no)
            /\ SeatNoValue(ret.value.seats[i].seat_no) <= args.config.max_seats

\* C9: a successful HandState::new returns phase = Dealing, pot = 0, an
\* empty board, and table_id, hand_no, button_seat, acting_seat and seats
\* exactly as passed; the hand_ids of successive hands are pairwise distinct.
BuiltHandFrame ==
    /\ (AtReturn("HandState::new") /\ IsOk(ret)) =>
          /\ ret.value.phase = [tag |-> "Dealing"]
          /\ ret.value.pot = 0
          /\ ret.value.board = << >>
          /\ ret.value.table_id = args.table_id
          /\ ret.value.hand_no = args.hand_no
          /\ ret.value.button_seat = args.button_seat
          /\ ret.value.acting_seat = args.acting_seat
          /\ ret.value.seats = args.seats
          /\ Len(hand_ids) > 0
          /\ ret.value.hand_id = hand_ids[Len(hand_ids)]
    /\ \A i, j \in DOMAIN hand_ids : i # j => hand_ids[i] # hand_ids[j]

\* a second hand was built, with a busted seat in its list and button and
\* actor on different seats
BuiltHandFrameWitness ==
    /\ AtReturn("HandState::new")
    /\ IsOk(ret)
    /\ Len(hand_ids) = 2
    /\ ret.value.button_seat # ret.value.acting_seat
    /\ \E i \in DOMAIN ret.value.seats :
          ret.value.seats[i].status = "Busted" /\ ret.value.seats[i].stack = 0

Outcome(r) == IF IsOk(r) THEN [kind |-> "Ok"] ELSE r.error

\* C10: the outcome of HandState::new depends on seats and config only:
\* another table_id and hand_no, another button_seat and acting_seat, or
\* all four different give the same Ok or the same error, and neither a
\* button or acting seat that is absent from the list or not active, nor
\* the same seat for both, makes it fail.
OutcomeIgnoresCaller ==
    AtReturn("HandState::new") =>
        /\ \A t \in TableIds, h \in HandNos :
              Outcome(HandStateNew(t, h, args.button_seat, args.acting_seat,
                                   args.seats, args.config, 1)) = Outcome(ret)
        /\ \A b \in SeatNos, a \in SeatNos :
              Outcome(HandStateNew(args.table_id, args.hand_no, b, a,
                                   args.seats, args.config, 1)) = Outcome(ret)
        /\ \A t \in TableIds \ {args.table_id}, h \in HandNos \ {args.hand_no},
              b \in SeatNos \ {args.button_seat}, a \in SeatNos \ {args.acting_seat} :
              Outcome(HandStateNew(t, h, b, a, args.seats, args.config, 1)) = Outcome(ret)
        /\ (/\ ConfigHolds(args.config)
            /\ Cardinality(ActiveSeats(args.seats)) >= args.config.min_players_to_start
            /\ Len(args.seats) <= args.config.max_seats
            /\ ~HasDuplicateSeat(args.seats)) => IsOk(ret)

\* a hand was built whose button and actor are one seat that is not in the
\* seat list
OutcomeIgnoresCallerWitness ==
    /\ AtReturn("HandState::new")
    /\ IsOk(ret)
    /\ args.button_seat = args.acting_seat
    /\ \A i \in DOMAIN args.seats : args.seats[i].seat_no # args.button_seat

ActionInvariant(a) == (a.kind \in {"Bet", "Raise"}) <=> (a.amount # None)
HandInvariant(h, c) ==
    /\ ~HasDuplicateSeat(h.seats)
    /\ Len(h.seats) <= c.max_seats
    /\ Cardinality(ActiveSeats(h.seats)) >= c.min_players_to_start

====
